---- MODULE Spec2Model ----
(***************************************************************************)
(* A model of src/script.js, class ZakahCalculator: the form fields, the   *)
(* calculate control, the exchange-rate cache, the in-flight guard, the    *)
(* debounce timer and the asynchronous rate resolutions of                  *)
(* updateCurrencyConversions and calculateZakah.                            *)
(*                                                                           *)
(* Amounts typed into the form are whole units; exchange rates are in      *)
(* hundredths of a unit per US dollar (48.0 is 4800, 3.75 is 375, 1 is      *)
(* 100); displayed conversions are in hundredths; the figures of a          *)
(* calculation are exact fractions.  A Gregorian date is its number of days *)
(* after 2024-07-08.  An empty form value ('') is 0 for a select and "" for *)
(* the country; the empty selectedDate is <<>>.                             *)
(***************************************************************************)
EXTENDS Integers, Sequences, FiniteSets, TLC

(* ------------------------------ bounds --------------------------------- *)

\* largest amount typed into a gold, cash or gold-price field
MaxAmt == 1
\* largest day of the month the user picks
MaxDayPick == 2
\* number of operations (conversions, calculations) that can be pending
MaxOps == 2
\* milliseconds that pass in one step of the clock
TickMs == 250

(* ------------------------- program constants --------------------------- *)

\* setTimeout(..., 500)
DebounceMs == 500
\* referenceHijri.year
ReferenceYear == 1446

Countries == {"", "EGP", "SAR"}
GoldIds == {"gold-18k", "gold-21k", "gold-24k"}
CashIds == {"currency-egp", "currency-sar", "currency-usd"}

\* the fields the user types into, the years and months the user picks
TypedGoldIds == {"gold-24k"}
TypedCashIds == {"currency-sar"}
PickYears == {0, 1448}
PickMonths == {0, 1}
\* the days the user picks in the session that clears fields: '' and the 1st
FormDayPicks == {0, 1}
\* the day on which the page is loaded (Gregorian year, month, day)
TodayDates == {<<2026, 1, 1>>}
\* the years picked in the session that goes back before the reference year
EarlyPickYears == {1445, 1446}
\* the days on which the page is loaded, and the days picked, in the sessions
\* that only use the date picker
CalendarTodays == {<<2024, 7, 8>>, <<2030, 4, 30>>, <<2044, 8, 31>>, <<2058, 1, 1>>}
CalendarPickYears == {0} \cup 1440..1480
CalendarDayPicks == {0, 1, 29, 30}
\* the amounts, gold price and country of the sessions that start from a form
\* filled in before the day is picked
FilledGold ==
    {g \in [GoldIds -> {0, 5, 8, 10}] :
        g["gold-18k"] \in {0, 10} /\ g["gold-21k"] \in {0, 8} /\ g["gold-24k"] \in {0, 5}}
FilledCash ==
    {m \in [CashIds -> {0, 1, 100, 1000}] :
        /\ m["currency-egp"] \in {0, 1000}
        /\ m["currency-sar"] \in {0, 100}
        /\ m["currency-usd"] \in {0, 1}}
FilledPrices == {2}
FilledCountries == {"EGP", "SAR"}

(* --------------------------- Hijri calendar ---------------------------- *)

Max(a, b) == IF a > b THEN a ELSE b
Min(a, b) == IF a < b THEN a ELSE b

\* getDaysInHijriMonth taking the twelfth month for a long one as well
getDaysInHijriMonthLongTwelfth(year, month) ==
    IF month \in {1, 3, 5, 7, 9, 11, 12} THEN 30 ELSE 29

getDaysInHijriMonth(year, month) ==
    IF month \in {1, 3, 5, 7, 9, 11} THEN 30 ELSE 29

gregorianToHijri(g) ==
    [year  |-> ReferenceYear + (g[1] - 2024),
     month |-> Max(1, Min(12, g[2])),
     day   |-> Max(1, Min(30, g[3]))]

\* isHijriLeapYear with the 15th year of the cycle in place of the 16th
isHijriLeapYearFifteenth(year) ==
    (year % 30) \in {2, 5, 7, 10, 13, 15, 18, 21, 24, 26, 29}

isHijriLeapYear(year) ==
    (year % 30) \in {2, 5, 7, 10, 13, 16, 18, 21, 24, 26, 29}

\* getHijriYearDays counting twelve months of 29 days
getHijriYearDaysShortMonths(year) == 12 * 29

getHijriYearDays(year) == IF isHijriLeapYear(year) THEN 355 ELSE 354

getHijriMonthDays(year, month) ==
    IF month \in {1, 3, 5, 7, 9, 11} THEN 30 ELSE 29

\* the loop over the years running up to the target year inclusive
RECURSIVE SumYearDaysInclusive(_, _)
SumYearDaysInclusive(from, to) ==
    IF from > to THEN 0 ELSE getHijriYearDays(from) + SumYearDaysInclusive(from + 1, to)

RECURSIVE SumYearDays(_, _)
SumYearDays(from, to) ==
    IF from >= to THEN 0 ELSE getHijriYearDays(from) + SumYearDays(from + 1, to)

RECURSIVE SumMonthDays(_, _, _)
SumMonthDays(year, from, to) ==
    IF from >= to THEN 0
    ELSE getHijriMonthDays(year, from) + SumMonthDays(year, from + 1, to)

\* calculateHijriDaysFromReference counting the target day as a whole day
calculateHijriDaysCountingTargetDay(targetYear, targetMonth, targetDay) ==
    SumYearDays(ReferenceYear, targetYear)
        + SumMonthDays(targetYear, 1, targetMonth)
        + targetDay

calculateHijriDaysFromReference(targetYear, targetMonth, targetDay) ==
    SumYearDays(ReferenceYear, targetYear)
        + SumMonthDays(targetYear, 1, targetMonth)
        + (targetDay - 1)

\* the Gregorian date of a non-empty selectedDate, in days after 2024-07-08
hijriToGregorian(d) == calculateHijriDaysFromReference(d[1], d[2], d[3])

(* ----------------------------- exchange rates --------------------------- *)

\* the ultimate fallback of getCurrentExchangeRates: 48.0, 3.75, 1
HardcodedRates == [EGP |-> 4800, SAR |-> 375, USD |-> 100]

\* what the two external sources may answer: the outcome of the request and,
\* when it succeeds, the EGP and SAR entries of the body
Statuses == {"ok", "neterr", "http", "nodata"}
HistoricalBodies == {[EGP |-> 5000, SAR |-> 375]}
CurrentBodies == {[EGP |-> 4900, SAR |-> 376]}
HistoricalResponses == [status : Statuses, body : HistoricalBodies]
CurrentResponses == [status : Statuses, body : CurrentBodies]

\* the value read from an entry that the body of a response lacks
Undefined == -1
\* successful responses whose body lacks the EGP or the SAR entry
PartialHistoricalBodies == {[EGP |-> Undefined, SAR |-> 375]}
PartialCurrentBodies == {[EGP |-> 4900, SAR |-> Undefined]}

\* getHistoricalExchangeRates going on to the current rates whatever the
\* historical source answered
getHistoricalExchangeRatesAlwaysCurrent(resp) ==
    [next |-> "try", rates |-> HardcodedRates]

\* getHistoricalExchangeRates after its fetch: the RateSet it returns, or the
\* place from which it goes on to getCurrentExchangeRates ("try": the
\* missing-data branch inside the try block, "catch": the catch block)
getHistoricalExchangeRates(resp) ==
    CASE resp.status = "ok" ->
            [next |-> "return",
             rates |-> [EGP |-> resp.body.EGP, SAR |-> resp.body.SAR, USD |-> 100]]
      [] resp.status = "nodata" -> [next |-> "try", rates |-> HardcodedRates]
      [] OTHER -> [next |-> "catch", rates |-> HardcodedRates]

\* getCurrentExchangeRates without its catch block
getCurrentExchangeRatesNoCatch(resp) ==
    IF resp.status = "ok"
    THEN [raised |-> FALSE,
          rates |-> [EGP |-> resp.body.EGP, SAR |-> resp.body.SAR, USD |-> 100]]
    ELSE [raised |-> TRUE, rates |-> HardcodedRates]

\* getCurrentExchangeRates falling back to other approximate rates
getCurrentExchangeRatesOtherRates(resp) ==
    IF resp.status = "ok"
    THEN [raised |-> FALSE,
          rates |-> [EGP |-> resp.body.EGP, SAR |-> resp.body.SAR, USD |-> 100]]
    ELSE [raised |-> FALSE, rates |-> [EGP |-> 3090, SAR |-> 375, USD |-> 100]]

\* getCurrentExchangeRates after its fetch: the RateSet it returns; raised is
\* whether it throws to its caller instead.  A body without rates ("nodata")
\* throws a TypeError inside the try block, as the other failures do
getCurrentExchangeRates(resp) ==
    IF resp.status = "ok"
    THEN [raised |-> FALSE,
          rates |-> [EGP |-> resp.body.EGP, SAR |-> resp.body.SAR, USD |-> 100]]
    ELSE [raised |-> FALSE, rates |-> HardcodedRates]

(* ------------------------------- amounts -------------------------------- *)

\* A JavaScript number is a fraction <<numerator, denominator>> in lowest
\* terms with a positive denominator; NaN, and the undefined that becomes NaN
\* in any sum, product or quotient, is <<0, 0>>.
RECURSIVE GCD(_, _)
GCD(a, b) == IF b = 0 THEN a ELSE GCD(b, a % b)

Abs(x) == IF x < 0 THEN 0 - x ELSE x

Frac(n, d) ==
    IF d = 0 THEN <<0, 0>>
    ELSE LET g == GCD(Abs(n), Abs(d))
         IN  IF d > 0 THEN <<n \div g, d \div g>> ELSE <<(0 - n) \div g, (0 - d) \div g>>

NaN == <<0, 0>>
IsNaN(a) == a[2] = 0
Num(n) == <<n, 1>>
\* a rate in hundredths, or the undefined of a missing entry
Rate(r) == IF r = Undefined THEN NaN ELSE Frac(r, 100)

Plus(a, b) == IF IsNaN(a) \/ IsNaN(b) THEN NaN
              ELSE Frac(a[1] * b[2] + b[1] * a[2], a[2] * b[2])
Times(a, b) == IF IsNaN(a) \/ IsNaN(b) THEN NaN
               ELSE Frac(a[1] * b[1], a[2] * b[2])
\* a quotient of two rates, which are positive when they are defined
Over(a, b) == IF IsNaN(a) \/ IsNaN(b) THEN NaN
              ELSE Frac(a[1] * b[2], a[2] * b[1])

\* x / y rounded to the nearest integer (toFixed), y > 0
RoundDiv(x, y) == (2 * x + y) \div (2 * y)

\* toFixed(2) of x * (r1 / r2) for an amount x and two rates in hundredths,
\* as a number of hundredths; the text 'NaN' of a quotient with a missing
\* rate is -1
toFixed2(x, r1, r2) ==
    IF r1 = Undefined \/ r2 = Undefined THEN -1 ELSE RoundDiv(x * 100 * r1, r2)

\* the three converted amounts as displayed, lines 527-539; written is FALSE
\* when neither branch assigns them and toFixed throws a TypeError
Convert(c, target, r) ==
    CASE target = "EGP" ->
            [written |-> TRUE,
             egp |-> toFixed2(c["currency-egp"], 100, 100),
             sar |-> toFixed2(c["currency-sar"], r.EGP, r.SAR),
             usd |-> toFixed2(c["currency-usd"], r.EGP, 100)]
      [] target = "SAR" ->
            [written |-> TRUE,
             egp |-> toFixed2(c["currency-egp"], r.SAR, r.EGP),
             sar |-> toFixed2(c["currency-sar"], 100, 100),
             usd |-> toFixed2(c["currency-usd"], r.SAR, 100)]
      [] OTHER -> [written |-> FALSE, egp |-> 0, sar |-> 0, usd |-> 0]

\* updateCurrencyConversionsFallback: 0.078, 12.8, 48, 3.75
ConvertFallback(c, target) ==
    CASE target = "EGP" ->
            [written |-> TRUE,
             egp |-> toFixed2(c["currency-egp"], 100, 100),
             sar |-> toFixed2(c["currency-sar"], 1280, 100),
             usd |-> toFixed2(c["currency-usd"], 4800, 100)]
      [] target = "SAR" ->
            [written |-> TRUE,
             egp |-> toFixed2(c["currency-egp"], 78, 1000),
             sar |-> toFixed2(c["currency-sar"], 100, 100),
             usd |-> toFixed2(c["currency-usd"], 375, 100)]
      [] OTHER -> [written |-> FALSE, egp |-> 0, sar |-> 0, usd |-> 0]

\* the gold in 24k grams with 21k gold weighed like 18k gold
totalGold24kLight21k(g) ==
    Plus(Plus(Times(Num(g["gold-18k"]), Frac(18, 24)),
              Times(Num(g["gold-21k"]), Frac(18, 24))),
         Num(g["gold-24k"]))

\* the cash total with dollars converted at the rate of the other currency
totalCashOtherDollarRate(c, target, r) ==
    CASE target = "EGP" ->
            Plus(Plus(Num(c["currency-egp"]),
                      Times(Num(c["currency-sar"]), Over(Rate(r.EGP), Rate(r.SAR)))),
                 Times(Num(c["currency-usd"]), Rate(r.SAR)))
      [] target = "SAR" ->
            Plus(Plus(Times(Num(c["currency-egp"]), Over(Rate(r.SAR), Rate(r.EGP))),
                      Num(c["currency-sar"])),
                 Times(Num(c["currency-usd"]), Rate(r.EGP)))
      [] OTHER -> NaN

\* calculateZakah, lines 634-637: the gold in 24k grams and its value
totalGold24k(g) ==
    Plus(Plus(Times(Num(g["gold-18k"]), Frac(18, 24)),
              Times(Num(g["gold-21k"]), Frac(21, 24))),
         Num(g["gold-24k"]))

\* calculateZakah, lines 661-665: the cash in the target currency; with
\* another country the variable stays undefined
totalCash(c, target, r) ==
    CASE target = "EGP" ->
            Plus(Plus(Num(c["currency-egp"]),
                      Times(Num(c["currency-sar"]), Over(Rate(r.EGP), Rate(r.SAR)))),
                 Times(Num(c["currency-usd"]), Rate(r.EGP)))
      [] target = "SAR" ->
            Plus(Plus(Times(Num(c["currency-egp"]), Over(Rate(r.SAR), Rate(r.EGP))),
                      Num(c["currency-sar"])),
                 Times(Num(c["currency-usd"]), Rate(r.SAR)))
      [] OTHER -> NaN

\* calculateZakah, lines 670-679: the cash computed by the inner catch block
totalCashFallback(c, target) ==
    CASE target = "EGP" ->
            Plus(Plus(Num(c["currency-egp"]),
                      Times(Num(c["currency-sar"]), Frac(128, 10))),
                 Times(Num(c["currency-usd"]), Num(48)))
      [] target = "SAR" ->
            Plus(Plus(Times(Num(c["currency-egp"]), Frac(78, 1000)),
                      Num(c["currency-sar"])),
                 Times(Num(c["currency-usd"]), Frac(375, 100)))
      [] OTHER -> NaN

AnyPositive(f) == \E i \in DOMAIN f : f[i] > 0

hasGoldInputs(g) == AnyPositive(g)
hasCurrencyInputs(c) == AnyPositive(c)

\* checkIfCanCalculate without its test of the gold price
checkIfCanCalculateNoPrice(c, d, p, g, m) ==
    /\ c # ""
    /\ d # <<>>
    /\ (hasGoldInputs(g) \/ hasCurrencyInputs(m))

\* checkIfCanCalculate: whether the calculate button is enabled
checkIfCanCalculate(c, d, p, g, m) ==
    /\ c # ""
    /\ d # <<>>
    /\ p > 0
    /\ (hasGoldInputs(g) \/ hasCurrencyInputs(m))

\* checkIfCanCalculate: the text of the calculate button
buttonText(c, d, p, g, m) ==
    CASE c = "" \/ d = <<>> -> "choose country and date first"
      [] p <= 0 -> "enter the gold price first"
      [] ~(hasGoldInputs(g) \/ hasCurrencyInputs(m)) -> "enter gold or money"
      [] OTHER -> "calculate"

(* -------------------------------- state --------------------------------- *)

VARIABLES
    country,            \* this.country
    hijriYear,          \* value of the hijri-year select, 0 for ''
    hijriMonth,         \* value of the hijri-month select
    hijriDay,           \* value of the hijri-day select
    yearOptions,        \* the years the hijri-year select offers
    dayOptions,         \* number of days the hijri-day select offers
    defaultHijriDate,   \* the hijriDate that setDefaultHijriDate got from
                        \* gregorianToHijri on the day the page was loaded
    goldPriceLink,      \* the date the gold price link searches for, and the
                        \* selectedDate it was converted from
    selectedDate,       \* this.selectedDate: <<>> or <<year, month, day>>
    goldPrice,          \* this.goldPrice
    gold,               \* values of the gold-18k, gold-21k, gold-24k inputs
    cash,               \* values of the currency-egp, -sar, -usd inputs
    canCalculate,       \* the calculate button is not disabled
    btnText,            \* text of the calculate button
    exchangeRateCache,  \* this.exchangeRateCache: Gregorian date -> RateSet
    isConverting,       \* this.isConverting
    currencyTimeout,    \* ms until the debounce timer fires, -1 when none is pending
    ops,                \* the pending asynchronous operations
    converted,          \* the displayed converted cash amounts, with the
                        \* amounts, country and rates they were computed from
    results,            \* what the last calculation that reached displayResults
                        \* worked with, and where its rates came from
    quiet,              \* ms since the last currency input, at most DebounceMs
    lastRes,            \* the last completed rate resolution: where its rates
                        \* came from, the fetches it issued and which of them failed
    firstResolved       \* the RateSet first stored for each date

vars == <<country, hijriYear, hijriMonth, hijriDay, yearOptions, dayOptions,
          defaultHijriDate, goldPriceLink, selectedDate, goldPrice, gold, cash, canCalculate, btnText, exchangeRateCache,
          isConverting, currencyTimeout, ops, converted, results, quiet,
          lastRes, firstResolved>>

dateVars == <<hijriYear, hijriMonth, hijriDay, yearOptions, dayOptions,
              defaultHijriDate, goldPriceLink, selectedDate>>
fieldVars == <<country, dateVars, goldPrice, gold, cash, canCalculate, btnText>>
timeVars == <<currencyTimeout, quiet>>

Slots == 1..MaxOps

IdleOp ==
    [kind |-> "none", pc |-> "idle", country |-> "", date |-> <<>>,
     cashv |-> [i \in CashIds |-> 0], goldv |-> [i \in GoldIds |-> 0], price |-> 0,
     ctx |-> "try", histQ |-> 0, curQ |-> 0, histFailed |-> FALSE, curFailed |-> FALSE]

NoRes ==
    [src |-> "none", key |-> 0, rates |-> HardcodedRates,
     histQ |-> 0, curQ |-> 0, histFailed |-> FALSE, curFailed |-> FALSE]

NoResults ==
    [status |-> "none", country |-> "", date |-> <<>>, price |-> 0,
     goldv |-> [i \in GoldIds |-> 0], cashv |-> [i \in CashIds |-> 0],
     rates |-> HardcodedRates, src |-> "none"]

\* the converted amounts before any is written, and after they are cleared
NoConversions ==
    [written |-> FALSE, egp |-> 0, sar |-> 0, usd |-> 0, src |-> "none",
     cashv |-> [i \in CashIds |-> 0], country |-> "", rates |-> HardcodedRates]
ClearedConversions ==
    [written |-> TRUE, egp |-> 0, sar |-> 0, usd |-> 0, src |-> "cleared",
     cashv |-> [i \in CashIds |-> 0], country |-> "", rates |-> HardcodedRates]

Pending(o) == o.pc # "idle"
HasFree == \E s \in Slots : ~Pending(ops[s])
FreeSlot == CHOOSE s \in Slots : ~Pending(ops[s]) /\ \A t \in Slots : t < s => Pending(ops[t])

NoLink == [set |-> FALSE, hijri |-> <<>>, date |-> 0]

\* updateGoldPriceLink: the link follows a selectedDate that is set
updateGoldPriceLink(link, d) ==
    IF d # <<>> THEN [set |-> TRUE, hijri |-> d, date |-> hijriToGregorian(d)]
    ELSE link

\* populateHijriYears: the current Hijri year and the six before it
populateHijriYears(today) ==
    LET currentHijriYear == gregorianToHijri(today).year
    IN  (currentHijriYear - 6)..currentHijriYear

\* constructor and init(): setupHijriDatePicker on the day the page loads; a
\* day that is not among the options leaves the day select at ''
InitFor(today) ==
    LET h == gregorianToHijri(today)
        n == getDaysInHijriMonth(h.year, h.month)
        d == IF h.day <= n THEN h.day ELSE 0
        sel == IF d # 0 THEN <<h.year, h.month, d>> ELSE <<>>
    IN  /\ country = ""
        /\ yearOptions = populateHijriYears(today)
        /\ hijriYear = h.year
        /\ hijriMonth = h.month
        /\ dayOptions = n
        /\ hijriDay = d
        /\ defaultHijriDate = <<h.year, h.month, h.day>>
        /\ selectedDate = sel
        /\ goldPriceLink = updateGoldPriceLink(NoLink, sel)
        /\ goldPrice = 0
        /\ gold = [i \in GoldIds |-> 0]
        /\ cash = [i \in CashIds |-> 0]
        /\ canCalculate = FALSE
        /\ btnText = "choose country and date first"
        /\ exchangeRateCache = <<>>
        /\ isConverting = FALSE
        /\ currencyTimeout = -1
        /\ ops = [s \in Slots |-> IdleOp]
        /\ converted = NoConversions
        /\ results = NoResults
        /\ quiet = DebounceMs
        /\ lastRes = NoRes
        /\ firstResolved = <<>>

Init == \E today \in TodayDates : InitFor(today)

\* the form after the user has set the day select back to '', chosen the
\* country c, entered the gold price p and the gold amounts g, and has just
\* typed the last of the cash amounts m: without a date every currency input
\* cleared the conversions and started no lookup, and the debounce timer runs
InitFilledWith(today, c, p, g, m) ==
    LET h == gregorianToHijri(today)
    IN  /\ country = c
        /\ yearOptions = populateHijriYears(today)
        /\ hijriYear = h.year
        /\ hijriMonth = h.month
        /\ dayOptions = getDaysInHijriMonth(h.year, h.month)
        /\ hijriDay = 0
        /\ defaultHijriDate = <<h.year, h.month, h.day>>
        /\ selectedDate = <<>>
        /\ goldPriceLink = updateGoldPriceLink(NoLink, <<h.year, h.month, h.day>>)
        /\ goldPrice = p
        /\ gold = g
        /\ cash = m
        /\ canCalculate = checkIfCanCalculate(c, <<>>, p, g, m)
        /\ btnText = buttonText(c, <<>>, p, g, m)
        /\ exchangeRateCache = <<>>
        /\ isConverting = FALSE
        /\ currencyTimeout = DebounceMs
        /\ ops = [s \in Slots |-> IdleOp]
        /\ converted = ClearedConversions
        /\ results = NoResults
        /\ quiet = 0
        /\ lastRes = NoRes
        /\ firstResolved = <<>>

InitFilled ==
    \E today \in TodayDates, c \in FilledCountries, p \in FilledPrices,
       g \in FilledGold, m \in FilledCash :
          InitFilledWith(today, c, p, g, m)

\* the call of checkIfCanCalculate that ends a handler
CheckButton ==
    /\ canCalculate' = checkIfCanCalculate(country', selectedDate', goldPrice', gold', cash')
    /\ btnText' = buttonText(country', selectedDate', goldPrice', gold', cash')

\* updateHijriDate, from the values of the three selects
updateHijriDate ==
    /\ selectedDate' = IF hijriYear' # 0 /\ hijriMonth' # 0 /\ hijriDay' # 0
                       THEN <<hijriYear', hijriMonth', hijriDay'>>
                       ELSE <<>>
    /\ goldPriceLink' = updateGoldPriceLink(goldPriceLink, selectedDate')
    /\ CheckButton

(* ------------------- completing a rate resolution ----------------------- *)

\* a cache write that drops the other entries
PutAlone(cache, key, r) == [k \in {key} |-> r]

\* Map.set at lines 519 and 658
Put(cache, key, r) == [k \in DOMAIN cache \cup {key} |-> IF k = key THEN r ELSE cache[k]]

\* lines 524-549 and 559-582: the conversions shown by updateCurrencyConversions
\* once it has its rates (src "raised": the lookup threw and the catch block
\* runs updateCurrencyConversionsFallback)
ShowConversions(o, out) ==
    LET first == IF out.src = "raised"
                 THEN ConvertFallback(o.cashv, country)
                 ELSE Convert(o.cashv, country, out.rates)
        second == IF first.written THEN first ELSE ConvertFallback(o.cashv, country)
    IN  converted' = IF second.written
                     THEN [written |-> TRUE,
                           egp |-> second.egp, sar |-> second.sar, usd |-> second.usd,
                           src |-> IF out.src = "raised" THEN "fallback" ELSE "rates",
                           cashv |-> o.cashv, country |-> country, rates |-> out.rates]
                     ELSE converted

\* lines 661-694 and displayResults: what calculateZakah displays once it has
\* its rates (src "raised" or "baddate": the inner catch block computes with
\* the fixed rates); "partial" is a displayResults that throws at totalCash
displayResults(o, out) ==
    results' = [status   |-> IF country \in {"EGP", "SAR"} THEN "shown" ELSE "partial",
                country  |-> country,
                date     |-> o.date,
                price    |-> o.price,
                goldv    |-> o.goldv,
                cashv    |-> o.cashv,
                rates    |-> out.rates,
                src      |-> out.src]

\* calculateZakah, lines 634-686: the five figures it hands to displayResults
\* for the amounts, gold price, country and rates recorded in res
Figures(res) ==
    LET grams == totalGold24k(res.goldv)
        goldValue == Times(grams, Num(res.price))
        cashTotal == IF res.src \in {"raised", "baddate"}
                     THEN totalCashFallback(res.cashv, res.country)
                     ELSE totalCash(res.cashv, res.country, res.rates)
        totalWealth == Plus(goldValue, cashTotal)
        zakahAmount == Times(totalWealth, Frac(25, 1000))
    IN  [totalGold   |-> grams,
         goldValue   |-> goldValue,
         totalCash   |-> cashTotal,
         totalWealth |-> totalWealth,
         zakahAmount |-> zakahAmount]

\* the rest of updateCurrencyConversions (kind "conv") or calculateZakah (kind
\* "calc") from the point where operation o has its rates: the cache write of
\* lines 519 and 658 when the rates were fetched, then the display
Complete(o, out) ==
    LET key == IF o.date = <<>> THEN 0 ELSE hijriToGregorian(o.date)
        fetched == out.src \in {"hist", "cur", "hard"}
    IN  /\ exchangeRateCache' = IF fetched THEN Put(exchangeRateCache, key, out.rates)
                                ELSE exchangeRateCache
        /\ firstResolved' = IF fetched /\ key \notin DOMAIN firstResolved
                            THEN Put(firstResolved, key, out.rates)
                            ELSE firstResolved
        /\ IF o.kind = "conv"
           THEN ShowConversions(o, out) /\ UNCHANGED results
           ELSE displayResults(o, out) /\ UNCHANGED converted
        /\ lastRes' = IF out.src = "baddate" THEN lastRes
                      ELSE [src |-> out.src, key |-> key, rates |-> out.rates, histQ |-> o.histQ, curQ |-> o.curQ,
                            histFailed |-> o.histFailed, curFailed |-> o.curFailed]

NoCompletion == UNCHANGED <<exchangeRateCache, firstResolved, converted, results, lastRes>>

\* an operation at its first await: the fetch of getHistoricalExchangeRates,
\* with the values it read from the form before the await and, for a
\* calculation, the country that was chosen when it was called
Started(kind, date, cashv, goldv, price) ==
    [kind |-> kind, pc |-> "hist", country |-> IF kind = "calc" THEN country ELSE "",
     date |-> date, cashv |-> cashv, goldv |-> goldv,
     price |-> price, ctx |-> "try", histQ |-> 1, curQ |-> 0,
     histFailed |-> FALSE, curFailed |-> FALSE]

(* ----------------------- updateCurrencyConversions ---------------------- *)

\* updateCurrencyConversions without its in-flight guard
ConversionGuardOff == FALSE

\* line 490: the in-flight guard
ConversionGuard == isConverting

\* updateCurrencyConversions up to its first await
updateCurrencyConversions ==
    IF ConversionGuard
    THEN /\ NoCompletion
         /\ UNCHANGED <<isConverting, ops>>
    ELSE IF hasCurrencyInputs(cash') /\ selectedDate # <<>>
    THEN LET key == hijriToGregorian(selectedDate)
             o == [Started("conv", selectedDate, cash', [i \in GoldIds |-> 0], 0)
                     EXCEPT !.histQ = 0]
         IN  IF key \in DOMAIN exchangeRateCache
                THEN /\ Complete(o, [src |-> "cache", rates |-> exchangeRateCache[key]])
                     /\ UNCHANGED <<isConverting, ops>>
                ELSE /\ HasFree
                     /\ ops' = [ops EXCEPT ![FreeSlot] =
                                  Started("conv", selectedDate, cash', [i \in GoldIds |-> 0], 0)]
                     /\ isConverting' = TRUE
                     /\ NoCompletion
    ELSE /\ converted' = ClearedConversions
         /\ UNCHANGED <<exchangeRateCache, firstResolved, results, lastRes>>
         /\ UNCHANGED <<isConverting, ops>>

(* ------------------------------ form events ----------------------------- *)

opVars == <<exchangeRateCache, isConverting, ops, converted, results,
            lastRes, firstResolved>>

\* lines 31-37: 'change' of the country select
CountryChange(c) ==
    /\ c # country
    /\ country' = c
    /\ goldPriceLink' = updateGoldPriceLink(goldPriceLink, selectedDate)
    /\ UNCHANGED <<hijriYear, hijriMonth, hijriDay, yearOptions, dayOptions,
                   defaultHijriDate, selectedDate, goldPrice, gold, cash>>
    /\ CheckButton
    /\ UNCHANGED <<opVars, timeVars>>

\* lines 40-42: 'change' of the hijri-year select
YearChange(y) ==
    /\ y # hijriYear
    /\ y = 0 \/ y \in yearOptions
    /\ hijriYear' = y
    /\ UNCHANGED <<hijriMonth, hijriDay, yearOptions, dayOptions, defaultHijriDate>>
    /\ UNCHANGED <<country, goldPrice, gold, cash>>
    /\ updateHijriDate
    /\ UNCHANGED <<opVars, timeVars>>

\* lines 44-47: 'change' of the hijri-month select; updateDaysInMonth rebuilds
\* the day options, which leaves the day select at ''
MonthChange(m) ==
    /\ m # hijriMonth
    /\ hijriMonth' = m
    /\ hijriDay' = 0
    /\ dayOptions' = IF hijriYear = 0 \/ m = 0 THEN 0
                     ELSE getDaysInHijriMonth(hijriYear, m)
    /\ UNCHANGED <<hijriYear, yearOptions, defaultHijriDate>>
    /\ UNCHANGED <<country, goldPrice, gold, cash>>
    /\ updateHijriDate
    /\ UNCHANGED <<opVars, timeVars>>

\* lines 49-51: 'change' of the hijri-day select
DayChange(d) ==
    /\ d # hijriDay
    /\ d <= dayOptions
    /\ hijriDay' = d
    /\ UNCHANGED <<hijriYear, hijriMonth, yearOptions, dayOptions, defaultHijriDate>>
    /\ UNCHANGED <<country, goldPrice, gold, cash>>
    /\ updateHijriDate
    /\ UNCHANGED <<opVars, timeVars>>

\* the gold price listener without its call of checkIfCanCalculate
GoldPriceInputNoCheck(p) ==
    /\ p # goldPrice
    /\ goldPrice' = p
    /\ UNCHANGED <<country, dateVars, gold, cash>>
    /\ UNCHANGED <<canCalculate, btnText>>
    /\ UNCHANGED <<opVars, timeVars>>

\* lines 54-57: 'input' of the gold price field
GoldPriceInput(p) ==
    /\ p # goldPrice
    /\ goldPrice' = p
    /\ UNCHANGED <<country, dateVars, gold, cash>>
    /\ CheckButton
    /\ UNCHANGED <<opVars, timeVars>>

\* lines 68-73: 'input' of a gold field
GoldInput(id, v) ==
    /\ v # gold[id]
    /\ gold' = [gold EXCEPT ![id] = v]
    /\ UNCHANGED <<country, dateVars, goldPrice, cash>>
    /\ CheckButton
    /\ UNCHANGED <<opVars, timeVars>>

\* lines 60-65 and 76-89: 'input' of a currency field runs both listeners: the
\* first calls updateCurrencyConversions at once, the second restarts the timer
CurrencyInput(id, v) ==
    /\ v # cash[id]
    /\ cash' = [cash EXCEPT ![id] = v]
    /\ UNCHANGED <<country, dateVars, goldPrice, gold>>
    /\ updateCurrencyConversions
    /\ CheckButton
    /\ currencyTimeout' = DebounceMs
    /\ quiet' = 0

\* time passes; a timer that is due fires first
Tick ==
    /\ currencyTimeout # 0
    /\ currencyTimeout > 0 \/ quiet < DebounceMs
    /\ currencyTimeout' = IF currencyTimeout < 0 THEN -1
                          ELSE Max(0, currencyTimeout - TickMs)
    /\ quiet' = Min(DebounceMs, quiet + TickMs)
    /\ UNCHANGED <<fieldVars, opVars>>

\* lines 84-87: the debounce timer's callback
TimerFires ==
    /\ currencyTimeout = 0
    /\ currencyTimeout' = -1
    /\ UNCHANGED <<country, dateVars, goldPrice, gold, cash, quiet>>
    /\ updateCurrencyConversions
    /\ CheckButton

(* ------------------------------ calculateZakah -------------------------- *)

\* lines 92-94 and 626-660: a click on the enabled calculate button runs
\* calculateZakah up to its first await
CalculateClick ==
    /\ canCalculate
    /\ UNCHANGED <<fieldVars, timeVars, isConverting>>
    /\ IF selectedDate = <<>>
       THEN /\ Complete([Started("calc", selectedDate, cash, gold, goldPrice)
                            EXCEPT !.histQ = 0],
                        [src |-> "baddate", rates |-> HardcodedRates])
            /\ UNCHANGED ops
       ELSE LET key == hijriToGregorian(selectedDate)
            IN  IF key \in DOMAIN exchangeRateCache
                THEN /\ Complete([Started("calc", selectedDate, cash, gold, goldPrice)
                                     EXCEPT !.histQ = 0],
                                 [src |-> "cache", rates |-> exchangeRateCache[key]])
                     /\ UNCHANGED ops
                ELSE /\ HasFree
                     /\ ops' = [ops EXCEPT ![FreeSlot] =
                                  Started("calc", selectedDate, cash, gold, goldPrice)]
                     /\ NoCompletion

(* --------------------------- the external sources ----------------------- *)

\* updateCurrencyConversions without its finally block
ReleaseNever(o) == UNCHANGED isConverting

\* line 548: the finally block of updateCurrencyConversions
Release(o) ==
    IF o.kind = "conv" THEN isConverting' = FALSE ELSE UNCHANGED isConverting

\* the historical source answers operation s (lines 308-335)
HistoricalResponds(s, resp) ==
    LET o == ops[s]
        h == getHistoricalExchangeRates(resp)
    IN  /\ o.pc = "hist"
        /\ UNCHANGED <<fieldVars, timeVars>>
        /\ IF h.next = "return"
           THEN /\ Complete([o EXCEPT !.histFailed = resp.status # "ok"],
                            [src |-> "hist", rates |-> h.rates])
                /\ ops' = [ops EXCEPT ![s] = IdleOp]
                /\ Release(o)
           ELSE /\ ops' = [ops EXCEPT ![s] = [o EXCEPT !.pc = "cur", !.ctx = h.next,
                                                     !.curQ = o.curQ + 1,
                                                     !.histFailed = resp.status # "ok"]]
                /\ NoCompletion
                /\ UNCHANGED isConverting

\* the current-rates source answers operation s (lines 357-378); a throw of
\* getCurrentExchangeRates inside the try block of getHistoricalExchangeRates
\* enters its catch block, which calls getCurrentExchangeRates again
CurrentResponds(s, resp) ==
    LET o == ops[s]
        c == getCurrentExchangeRates(resp)
        failed == resp.status # "ok"
    IN  /\ o.pc = "cur"
        /\ UNCHANGED <<fieldVars, timeVars>>
        /\ IF c.raised /\ o.ctx = "try"
           THEN /\ ops' = [ops EXCEPT ![s] = [o EXCEPT !.ctx = "catch",
                                                     !.curQ = o.curQ + 1,
                                                     !.curFailed = failed]]
                /\ NoCompletion
                /\ UNCHANGED isConverting
           ELSE /\ Complete([o EXCEPT !.curFailed = failed],
                            [src |-> IF c.raised THEN "raised"
                                     ELSE IF failed THEN "hard" ELSE "cur",
                             rates |-> c.rates])
                /\ ops' = [ops EXCEPT ![s] = IdleOp]
                /\ Release(o)

\* the session in which the user chooses Egypt, enters a gold price, types
\* cash amounts, moves between days of the month and calculates
Next ==
    \/ \E c \in {"EGP"} : CountryChange(c)
    \/ \E d \in 1..MaxDayPick : DayChange(d)
    \/ \E p \in 1..MaxAmt : GoldPriceInput(p)
    \/ \E id \in TypedCashIds, v \in 0..MaxAmt : CurrencyInput(id, v)
    \/ Tick
    \/ TimerFires
    \/ CalculateClick
    \/ \E s \in Slots, resp \in HistoricalResponses : HistoricalResponds(s, resp)
    \/ \E s \in Slots, resp \in CurrentResponses : CurrentResponds(s, resp)

Spec == Init /\ [][Next]_vars

\* the session in which the user changes and clears every field of the form
\* while the historical source answers every request
NextForm ==
    \/ \E c \in Countries : CountryChange(c)
    \/ \E y \in PickYears : YearChange(y)
    \/ \E m \in PickMonths : MonthChange(m)
    \/ \E d \in FormDayPicks : DayChange(d)
    \/ \E p \in 0..MaxAmt : GoldPriceInput(p)
    \/ \E id \in TypedGoldIds, v \in 0..MaxAmt : GoldInput(id, v)
    \/ \E id \in TypedCashIds, v \in 0..MaxAmt : CurrencyInput(id, v)
    \/ Tick
    \/ TimerFires
    \/ CalculateClick
    \/ \E s \in Slots, resp \in {r \in HistoricalResponses : r.status = "ok"} :
          HistoricalResponds(s, resp)

SpecForm == Init /\ [][NextForm]_vars

\* the session in which the user picks a year the year select offers before
\* the reference year, types cash amounts and calculates
NextEarly ==
    \/ \E c \in {"EGP"} : CountryChange(c)
    \/ \E y \in EarlyPickYears : YearChange(y)
    \/ \E p \in 1..MaxAmt : GoldPriceInput(p)
    \/ \E id \in TypedCashIds, v \in 0..MaxAmt : CurrencyInput(id, v)
    \/ Tick
    \/ TimerFires
    \/ CalculateClick
    \/ \E s \in Slots, resp \in {r \in HistoricalResponses : r.status = "ok"} :
          HistoricalResponds(s, resp)

SpecEarly == Init /\ [][NextEarly]_vars

\* the sessions in which the user only moves through the date picker, on
\* pages loaded on different days
InitCalendar == \E today \in CalendarTodays : InitFor(today)

NextCalendar ==
    \/ \E y \in CalendarPickYears : YearChange(y)
    \/ \E m \in 0..12 : MonthChange(m)
    \/ \E d \in CalendarDayPicks : DayChange(d)

SpecCalendar == InitCalendar /\ [][NextCalendar]_vars

\* the session in which a source may answer successfully with a body that
\* lacks one of the two entries
NextBodies ==
    \/ \E c \in {"EGP"} : CountryChange(c)
    \/ \E p \in 1..MaxAmt : GoldPriceInput(p)
    \/ \E id \in TypedCashIds, v \in 0..MaxAmt : CurrencyInput(id, v)
    \/ Tick
    \/ TimerFires
    \/ CalculateClick
    \/ \E s \in Slots,
          resp \in [status : {"ok", "nodata"},
                    body : HistoricalBodies \cup PartialHistoricalBodies] :
             HistoricalResponds(s, resp)
    \/ \E s \in Slots,
          resp \in [status : {"ok", "neterr"},
                    body : CurrentBodies \cup PartialCurrentBodies] :
             CurrentResponds(s, resp)

SpecBodies == Init /\ [][NextBodies]_vars

\* the sessions that start from a filled form: the user picks the day and
\* calculates while the debounce timer runs out
NextAmounts ==
    \/ \E d \in {1} : DayChange(d)
    \/ Tick
    \/ TimerFires
    \/ CalculateClick
    \/ \E s \in Slots, resp \in {r \in HistoricalResponses : r.status \in {"ok", "neterr"}} :
          HistoricalResponds(s, resp)
    \/ \E s \in Slots, resp \in {r \in CurrentResponses : r.status \in {"ok", "neterr"}} :
          CurrentResponds(s, resp)

SpecAmounts == InitFilled /\ [][NextAmounts]_vars

\* the session in which the user leaves the date as it is, types cash amounts
\* before and after choosing the country and calculates, and each source may
\* answer or fail in any way
NextConversions ==
    \/ \E c \in {"EGP"} : CountryChange(c)
    \/ \E p \in 1..MaxAmt : GoldPriceInput(p)
    \/ CalculateClick
    \/ \E id \in TypedCashIds, v \in 0..MaxAmt : CurrencyInput(id, v)
    \/ Tick
    \/ TimerFires
    \/ \E s \in Slots, resp \in HistoricalResponses : HistoricalResponds(s, resp)
    \/ \E s \in Slots, resp \in CurrentResponses : CurrentResponds(s, resp)

\* lines 308 and 357: a fetch that was issued settles, with a response or with
\* an error, so that the operation awaiting it goes on
FetchesSettle ==
    \A s \in Slots :
        /\ WF_vars(\E resp \in HistoricalResponses : HistoricalResponds(s, resp))
        /\ WF_vars(\E resp \in CurrentResponses : CurrentResponds(s, resp))

SpecConversions == Init /\ [][NextConversions]_vars /\ FetchesSettle

(* ------------------------------ properties ------------------------------ *)

\* C1: within one rate resolution the current-rates source is queried only
\* after the historical query of that resolution has failed, the hardcoded
\* RateSet is produced only after the current-rates query has failed too, and
\* each source is queried at most once.
C1_FallbackOrder ==
    /\ \A s \in Slots :
          LET o == ops[s]
          IN  /\ o.histQ <= 1 /\ o.curQ <= 1
              /\ o.pc = "hist" => o.histQ = 1 /\ o.curQ = 0
              /\ o.pc = "cur" => o.histQ = 1 /\ o.histFailed /\ o.curQ = 1
    /\ lastRes.histQ <= 1 /\ lastRes.curQ <= 1
    /\ lastRes.curQ >= 1 => lastRes.histQ = 1 /\ lastRes.histFailed
    /\ lastRes.src = "hist" => lastRes.histQ = 1 /\ ~lastRes.histFailed /\ lastRes.curQ = 0
    /\ lastRes.src = "cur" => lastRes.curQ = 1 /\ ~lastRes.curFailed
    /\ lastRes.src = "hard" => lastRes.curQ = 1 /\ lastRes.curFailed
    /\ lastRes.rates = HardcodedRates /\ lastRes.src \notin {"none", "cache"}
          => lastRes.src = "hard"

\* a resolution that went through the three stages
C1_Witness ==
    /\ lastRes.src = "hard"
    /\ lastRes.histQ = 1 /\ lastRes.curQ = 1
    /\ lastRes.histFailed /\ lastRes.curFailed

\* C2: whatever the two sources answer, getHistoricalExchangeRates and
\* getCurrentExchangeRates end by returning a RateSet and never throw to
\* their caller: neither updateCurrencyConversions nor calculateZakah sees a
\* rate lookup fail.
C2_NeverRaises ==
    /\ lastRes.src \in {"none", "cache", "hist", "cur", "hard"}
    /\ results.src \in {"none", "cache", "hist", "cur", "hard"}
    /\ \A s \in Slots : ops[s].pc = "cur" => ops[s].curQ = 1

\* the historical source failed, the current one answered, and the
\* calculation displayed its result with the rates returned
C2_Witness ==
    /\ lastRes.src = "cur" /\ lastRes.histFailed
    /\ results.src = "cur" /\ results.status = "shown"
    /\ results.rates.EGP \in {b.EGP : b \in CurrentBodies}

\* C3: when both the historical and the current source fail, the resolved
\* RateSet is exactly EGP 48.0, SAR 3.75, USD 1, and calculateZakah goes on to
\* displayResults with these rates without entering its catch block.
C3_BothFail ==
    /\ [](/\ lastRes.histFailed /\ lastRes.curFailed
             => /\ lastRes.src = "hard"
                /\ lastRes.rates = [EGP |-> 4800, SAR |-> 375, USD |-> 100]
          /\ results.src = "hard"
             => /\ results.status # "none"
                /\ results.rates = [EGP |-> 4800, SAR |-> 375, USD |-> 100])
    /\ [][\A s \in Slots :
             (/\ ops[s].kind = "calc" /\ ops[s].pc = "cur"
              /\ ops'[s].pc = "idle" /\ lastRes'.curFailed)
                => /\ results'.src = "hard"
                   /\ results'.status # "none"
                   /\ results'.cashv = ops[s].cashv
                   /\ results'.goldv = ops[s].goldv]_vars

\* both sources failed and the calculation displayed its result
C3_Witness ==
    /\ lastRes.src = "hard" /\ lastRes.histFailed /\ lastRes.curFailed
    /\ results.src = "hard" /\ results.status = "shown"
    /\ results.rates = HardcodedRates

PendingOps(kind) == {s \in Slots : Pending(ops[s]) /\ ops[s].kind = kind}

\* C4: once the rates of a Gregorian date have been resolved, every later
\* resolution of that date hits the cache: it issues no external query and
\* uses the RateSet that was resolved the first time.
C4_HitUsesFirstResolved ==
    lastRes.src = "cache"
        => /\ lastRes.histQ = 0 /\ lastRes.curQ = 0
           /\ lastRes.key \in DOMAIN firstResolved
           /\ lastRes.rates = firstResolved[lastRes.key]

\* C5, as claimed: at most one operation that resolves rates and writes the
\* converted or result figures is in flight, calculations included.
C5_OneOperationInFlight ==
    Cardinality({s \in Slots : Pending(ops[s])}) <= 1

\* C5, amended: at most one updateCurrencyConversions is in flight, and it is
\* in flight exactly while isConverting is set; a call that arrives meanwhile
\* (an input event or the debounce timer) starts nothing and leaves the
\* operation in flight as it is.  calculateZakah is outside the guard.
C5_OneConversionInFlight ==
    /\ [](/\ Cardinality(PendingOps("conv")) <= 1
          /\ isConverting <=> PendingOps("conv") # {})
    /\ [][\A s \in PendingOps("conv") :
             (cash' # cash \/ (currencyTimeout = 0 /\ currencyTimeout' = -1))
                => /\ ops'[s] = ops[s]
                   /\ \A t \in Slots \ {s} : ops'[t] = ops[t]
                   /\ converted' = converted]_vars

\* a conversion is in flight, a currency input has arrived since it read the
\* fields, and a calculation is in flight beside it
C5_Witness ==
    \E s \in PendingOps("conv") :
        /\ ops[s].cashv # cash
        /\ PendingOps("calc") # {}

\* C6: a currency input starts no rate lookup for the conversions before
\* 500 ms have passed without another currency input.
C6_Debounced ==
    [][(\E s \in Slots : ~Pending(ops[s]) /\ Pending(ops'[s]) /\ ops'[s].kind = "conv")
          => quiet' >= DebounceMs]_vars

\* C7: the RateSet stored under a date key never changes to another one,
\* also when two operations resolve the same uncached date concurrently.
C7_CacheValueFixed ==
    [][\A k \in DOMAIN exchangeRateCache :
          /\ k \in DOMAIN exchangeRateCache'
          /\ exchangeRateCache'[k] = exchangeRateCache[k]]_vars

\* C8: whenever displayResults is reached, the inputs it works with include a
\* target currency in {EGP, SAR}, a set Hijri date, a gold price > 0 and a
\* gold or cash quantity > 0.
C8_DisplayedInputsValid ==
    results.status # "none"
        => /\ results.country \in {"EGP", "SAR"}
           /\ results.date # <<>>
           /\ results.price > 0
           /\ \/ \E i \in GoldIds : results.goldv[i] > 0
              \/ \E i \in CashIds : results.cashv[i] > 0

C10_PermissionCurrent ==
    /\ canCalculate <=>
          /\ country \in {"EGP", "SAR"}
          /\ hijriYear # 0 /\ hijriMonth # 0 /\ hijriDay # 0
          /\ goldPrice > 0
          /\ \/ \E i \in GoldIds : gold[i] > 0
             \/ \E i \in CashIds : cash[i] > 0
    /\ selectedDate # <<>> <=> hijriYear # 0 /\ hijriMonth # 0 /\ hijriDay # 0

\* the button is enabled for gold alone, after the date was cleared and set again
C10_Witness ==
    /\ canCalculate
    /\ country = "SAR"
    /\ \E i \in GoldIds : gold[i] > 0
    /\ \A i \in CashIds : cash[i] = 0
    /\ results.status # "none" /\ results.country = "EGP"

\* C11: a Hijri date whose year is before the reference year 1446 is refused
\* by hijriToGregorian: no Gregorian date comes out of it for the gold price
\* link, and no rate lookup or calculation works with such a date.
C11_BeforeReferenceRefused ==
    /\ goldPriceLink.set => goldPriceLink.hijri[1] >= ReferenceYear
    /\ \A s \in Slots : Pending(ops[s]) => ops[s].date[1] >= ReferenceYear
    /\ results.status # "none" /\ results.date # <<>>
          => results.date[1] >= ReferenceYear

RateSetValid(r) == r.EGP > 0 /\ r.SAR > 0 /\ r.USD = 100

\* C12: every RateSet a resolution returns, every RateSet in the cache and
\* every RateSet a calculation divides by has EGP > 0, SAR > 0 and USD = 1,
\* whatever the body of a successful response contains.
C12_RateSetsValid ==
    /\ \A k \in DOMAIN exchangeRateCache : RateSetValid(exchangeRateCache[k])
    /\ lastRes.src # "none" => RateSetValid(lastRes.rates)
    /\ results.status # "none" => RateSetValid(results.rates)

\* C13: the set of date keys in the rate cache only grows: no step removes a
\* key, and every date that was ever stored is still a key.
C13_CacheGrows ==
    /\ [](DOMAIN firstResolved \subseteq DOMAIN exchangeRateCache)
    /\ [][DOMAIN exchangeRateCache \subseteq DOMAIN exchangeRateCache']_vars

\* the cache holds the rates of two dates, the older of them written again
\* by a later resolution
C13_Witness ==
    /\ Cardinality(DOMAIN exchangeRateCache) = 2
    /\ \E k \in DOMAIN exchangeRateCache :
          /\ k # lastRes.key
          /\ exchangeRateCache[k] # firstResolved[k]

LeapResidues == {2, 5, 7, 10, 13, 16, 18, 21, 24, 26, 29}

\* the offset the conversion is to produce: 354 days for every year from 1446
\* up to the year before y and one more for each leap year among them, 29
\* days for every month before m and one more for each odd month among them,
\* and d - 1 days
ExpectedOffset(y, m, d) ==
    354 * (y - ReferenceYear)
        + Cardinality({z \in ReferenceYear..(y - 1) : (z % 30) \in LeapResidues})
        + 29 * (m - 1) + (m \div 2)
        + (d - 1)

\* C15: for a Hijri date at or after the reference, the offset that
\* hijriToGregorian adds to 2024-07-08 is the sum of the lengths of the years
\* from 1446 up to the year before the target year, plus the lengths of the
\* months before the target month, plus the target day minus 1.
C15_OffsetIsSumOfLengths ==
    /\ selectedDate # <<>> /\ selectedDate[1] >= ReferenceYear
          => /\ goldPriceLink.hijri = selectedDate
             /\ goldPriceLink.date =
                   ExpectedOffset(selectedDate[1], selectedDate[2], selectedDate[3])
    /\ goldPriceLink.set /\ goldPriceLink.hijri[1] >= ReferenceYear
          => goldPriceLink.date =
                ExpectedOffset(goldPriceLink.hijri[1], goldPriceLink.hijri[2],
                               goldPriceLink.hijri[3])

\* a date 34 years after the reference, late in the year, was converted
C15_Witness ==
    /\ selectedDate = <<1480, 12, 29>>
    /\ goldPriceLink.hijri = selectedDate
    /\ goldPriceLink.date > 34 * 354

\* the offset when the years summed are only those after 1446 and before y
ExpectedOffsetStrictlyBetween(y, m, d) ==
    IF y = ReferenceYear
    THEN ExpectedOffset(y, m, d)
    ELSE ExpectedOffset(y, m, d) - getHijriYearDays(ReferenceYear)

\* C15, as stated: for a Hijri date at or after the reference, the offset that
\* hijriToGregorian adds to 2024-07-08 is the sum of the lengths of the years
\* strictly between 1446 and the target year, plus the lengths of the months
\* before the target month, plus the target day minus 1.
C15_StrictlyBetween ==
    selectedDate # <<>> /\ selectedDate[1] >= ReferenceYear
        => goldPriceLink.date =
              ExpectedOffsetStrictlyBetween(selectedDate[1], selectedDate[2],
                                            selectedDate[3])

\* C16: a Hijri year has 354 or 355 days, 355 exactly when the year modulo 30
\* is one of 2, 5, 7, 10, 13, 16, 18, 21, 24, 26, 29, which makes 11 leap
\* years in any 30 consecutive years; checked for the years from 1 to 60, the
\* years the conversion passes and the 30 years from the selected year on.
C16_YearLength ==
    LET Holds(y) ==
            /\ getHijriYearDays(y) \in {354, 355}
            /\ getHijriYearDays(y) = 355 <=> (y % 30) \in LeapResidues
        start == IF hijriYear = 0 THEN 1 ELSE hijriYear
    IN  /\ \A y \in 1..60 : Holds(y)
        /\ \A y \in ReferenceYear..(start + 29) : Holds(y)
        /\ Cardinality({y \in start..(start + 29) : getHijriYearDays(y) = 355}) = 11

\* the conversion of a date in 1448 passed the common year 1446 and the leap
\* year 1447
C16_Witness ==
    /\ selectedDate = <<1448, 1, 1>>
    /\ goldPriceLink.hijri = selectedDate
    /\ goldPriceLink.date = 354 + 355

ValidHijriDate(d) ==
    /\ d[2] \in 1..12
    /\ d[3] >= 1
    /\ d[3] <= getHijriMonthDays(d[1], d[2])

\* C18: every Hijri date the program creates, the one gregorianToHijri
\* returns for the day the page is loaded and the one the user selects, has a
\* month in 1..12 and a day between 1 and the length of its month.
C18_HijriDatesValid ==
    /\ ValidHijriDate(defaultHijriDate)
    /\ selectedDate # <<>> => ValidHijriDate(selectedDate)

\* C19: a calculation that displays its results has goldValue = (18k x 18/24
\* + 21k x 21/24 + 24k) x gold price, totalWealth = goldValue + the cash total
\* and zakah = totalWealth x 0.025, i.e. a fortieth of the total wealth.
C19_ZakahFigures ==
    results.status = "shown"
        => LET g == results.goldv
               karats == 18 * g["gold-18k"] + 21 * g["gold-21k"] + 24 * g["gold-24k"]
               f == Figures(results)
               gv == f.goldValue
               tc == f.totalCash
               tw == f.totalWealth
               z == f.zakahAmount
           IN  /\ f.totalGold = Frac(karats, 24)
               /\ 24 * gv[1] = karats * results.price * gv[2]
               /\ tc[2] > 0 /\ tw[2] > 0 /\ z[2] > 0
               /\ tw = Frac(gv[1] * tc[2] + tc[1] * gv[2], gv[2] * tc[2])
               /\ z = Frac(tw[1], 40 * tw[2])

\* 10 g of 18k and 5 g of 24k gold made 12.5 g, the cash of 1000 EGP and 100
\* SAR made 2280 EGP at the rates 48.0 and 3.75
C19_Witness ==
    /\ results.status = "shown" /\ results.country = "EGP"
    /\ results.goldv["gold-18k"] = 10 /\ results.goldv["gold-21k"] = 0
    /\ results.goldv["gold-24k"] = 5
    /\ Figures(results).totalGold = <<25, 2>>
    /\ results.cashv["currency-egp"] = 1000 /\ results.cashv["currency-sar"] = 100
    /\ results.cashv["currency-usd"] = 0
    /\ results.rates = HardcodedRates
    /\ Figures(results).totalCash = <<2280, 1>>
    /\ Figures(results).totalWealth = <<2305, 1>>
    /\ Figures(results).zakahAmount = <<461, 8>>

\* the cash total as claimed: for EGP, EGP + SAR x (rates.EGP / rates.SAR) +
\* USD x rates.EGP; for SAR, EGP x (rates.SAR / rates.EGP) + SAR + USD x
\* rates.SAR (rates in hundredths)
ExpectedCash(c, target, r) ==
    IF target = "EGP"
    THEN Frac(c["currency-egp"] * 100 * r.SAR + c["currency-sar"] * 100 * r.EGP
                 + c["currency-usd"] * r.EGP * r.SAR,
              100 * r.SAR)
    ELSE Frac(c["currency-egp"] * 100 * r.SAR + c["currency-sar"] * 100 * r.EGP
                 + c["currency-usd"] * r.SAR * r.EGP,
              100 * r.EGP)

\* the conversions on display and the results on display were computed from
\* the same cash amounts, country and RateSet
SameInputs ==
    /\ converted.src = "rates"
    /\ results.status = "shown" /\ results.src \in {"cache", "hist", "cur", "hard"}
    /\ converted.cashv = results.cashv
    /\ converted.country = results.country
    /\ converted.rates = results.rates

DisplayedSum == converted.egp + converted.sar + converted.usd

\* the displayed amount, in hundredths, is n / d rounded to two decimals
Rounded(displayed, n, d) == 2 * Abs(displayed * d - 100 * n) <= d

\* C20, as claimed: the cash total follows the formula, and the conversions
\* displayed by updateCurrencyConversions add up to the total calculateZakah
\* uses for the same inputs and RateSet.
C20_DisplayedSumIsTotal ==
    /\ results.status = "shown"
          => Figures(results).totalCash
                = ExpectedCash(results.cashv, results.country, results.rates)
    /\ SameInputs => Frac(DisplayedSum, 100) = Figures(results).totalCash

\* C20, amended: the cash total follows the formula; each conversion that
\* updateCurrencyConversions displays is the corresponding term of that
\* formula rounded to two decimals, so that the three of them add up to the
\* total calculateZakah uses for the same inputs and RateSet to within 0.015.
C20_CashTotal ==
    /\ results.status = "shown"
          => Figures(results).totalCash
                = ExpectedCash(results.cashv, results.country, results.rates)
    /\ converted.src = "rates"
          => LET c == converted.cashv
                 r == converted.rates
             IN  IF converted.country = "EGP"
                 THEN /\ converted.egp = 100 * c["currency-egp"]
                      /\ Rounded(converted.sar, c["currency-sar"] * r.EGP, r.SAR)
                      /\ Rounded(converted.usd, c["currency-usd"] * r.EGP, 100)
                 ELSE /\ Rounded(converted.egp, c["currency-egp"] * r.SAR, r.EGP)
                      /\ converted.sar = 100 * c["currency-sar"]
                      /\ Rounded(converted.usd, c["currency-usd"] * r.SAR, 100)
    /\ SameInputs
          => LET total == Figures(results).totalCash
             IN  2 * Abs(DisplayedSum * total[2] - 100 * total[1]) <= 3 * total[2]

\* 100 SAR at the rates 50.00 and 3.75 are displayed as 1333.33 EGP, while
\* the calculation adds 1333 and a third to the 1000 EGP
C20_Witness ==
    /\ SameInputs
    /\ results.country = "EGP"
    /\ results.cashv["currency-egp"] = 1000 /\ results.cashv["currency-sar"] = 100
    /\ results.cashv["currency-usd"] = 0
    /\ converted.sar = 133333
    /\ Figures(results).totalCash = <<7000, 3>>
    /\ Frac(DisplayedSum, 100) # Figures(results).totalCash

\* C21: the rate cache is written only by the first resolution of a date and
\* only when a source answered: a step that changes the cache ends a
\* resolution whose rates came from the historical or the current source, for
\* a date that was not yet a key; a resolution that ends with the hardcoded
\* RateSet leaves the cache as it was.
C21_CacheWrittenOnFirstSuccess ==
    [][/\ exchangeRateCache' # exchangeRateCache
             => /\ lastRes'.src \in {"hist", "cur"}
                /\ lastRes'.key \notin DOMAIN exchangeRateCache
       /\ lastRes' # lastRes /\ lastRes'.src = "hard"
             => exchangeRateCache' = exchangeRateCache]_vars

C23_SingleSnapshot ==
    [][\A s \in PendingOps("calc") :
          ~Pending(ops'[s])
              => /\ results'.country = ops[s].country
                 /\ results'.price = ops[s].price
                 /\ results'.goldv = ops[s].goldv
                 /\ results'.cashv = ops[s].cashv
                 /\ results'.date = ops[s].date]_vars

\* no conversion is in flight and no debounce timer is running
Quiescent ==
    /\ ~isConverting
    /\ currencyTimeout = -1
    /\ \A s \in Slots : ~Pending(ops[s])

\* C24: once every pending conversion and the debounce timer have completed,
\* converted amounts on display that were computed for the country now chosen
\* (the date is not changed in this session) are the conversions of the cash
\* amounts now in the fields: a request dropped by the in-flight guard does
\* not leave conversions of older amounts on display.
C24_DisplayFollowsInputs ==
    Quiescent /\ selectedDate # <<>>
              /\ converted.src \in {"rates", "fallback"} /\ converted.country = country
        => converted.cashv = cash

\* calendar order of two Hijri dates: by year, then month, then day
CalendarBefore(a, b) ==
    \/ a[1] < b[1]
    \/ a[1] = b[1] /\ a[2] < b[2]
    \/ a[1] = b[1] /\ a[2] = b[2] /\ a[3] < b[3]

\* the valid dates at or after the reference a date d is compared with: in
\* the year before, its year and the year after, in every month, on the first
\* day, the day before, its own day, the day after and the last days of the
\* month
ComparedDates(d) ==
    {e \in {d[1] - 1, d[1], d[1] + 1} \X (1..12)
                                      \X {1, d[3] - 1, d[3], d[3] + 1, 29, 30} :
        e[1] >= ReferenceYear /\ ValidHijriDate(e)}

NextHijriDate(d) ==
    IF d[3] < getHijriMonthDays(d[1], d[2]) THEN <<d[1], d[2], d[3] + 1>>
    ELSE IF d[2] < 12 THEN <<d[1], d[2] + 1, 1>>
    ELSE <<d[1] + 1, 1, 1>>

\* C26: the length of the year of the date selected is the sum of the lengths
\* of its twelve months, and the valid date that follows the date selected,
\* the first day of the next year after the last day of a year included, maps
\* to the next Gregorian day.
C26_YearIsSumOfMonths ==
    selectedDate # <<>> /\ ValidHijriDate(selectedDate)
                        /\ selectedDate[1] >= ReferenceYear
        => /\ getHijriYearDays(selectedDate[1]) = SumMonthDays(selectedDate[1], 1, 13)
           /\ \A m \in 1..12 :
                 getDaysInHijriMonth(selectedDate[1], m)
                    = getHijriMonthDays(selectedDate[1], m)
           /\ hijriToGregorian(NextHijriDate(selectedDate)) = goldPriceLink.date + 1


====
